---- MODULE Spec2Model ----
(* Model of wwhrd's `check` command (Check.Execute, cli.go): the license   *)
(* policy evaluation loop, the exception normalisation and the optional    *)
(* attribution report.  Strings that the code inspects character by        *)
(* character (package paths, exception entries) are sequences of           *)
(* one-character strings.                                                  *)
EXTENDS Naturals, Integers, Sequences, FiniteSets, TLC

VARIABLES
    Whitelist,          \* t.Whitelist  ([]string from the config)
    Blacklist,          \* t.Blacklist
    Exceptions,         \* t.Exceptions
    lics,               \* map[string]License returned by GetLicenses
    ReportOut,          \* c.ReportOut
    whitelist,          \* map[string]bool, as the set of keys mapped to true
    blacklist,
    exceptions,
    exceptionsWildcard,
    report,             \* *os.File: "nil" or "open"
    reportFile,         \* what has been written to the report file
    writeFailed,        \* a WriteString on the report file returned an error
    err,                \* the function's err variable
    pending,            \* keys of lics the range loop has not produced yet
    verdicts,           \* log lines of the loop: (package, verdict), in order
    pc,                 \* "start", "open", "loop", "done"
    returned,           \* the value Execute returned ("running" before that)
    run,                \* number of the invocation of Execute
    prevReport          \* report file left by the previous invocation

vars == <<Whitelist, Blacklist, Exceptions, lics, ReportOut, whitelist,
          blacklist, exceptions, exceptionsWildcard, report, reportFile,
          writeFailed, err, pending, verdicts, pc, returned, run, prevReport>>

inputs == <<Whitelist, Blacklist, Exceptions, lics, ReportOut>>
policy == <<whitelist, blacklist, exceptions, exceptionsWildcard>>

----------------------------------------------------------------------------
(* Bounds of the explored inputs *)

MaxWhitelist == 1
MaxBlacklist == 1
MaxExceptions == 2
MaxDeps == 2

a == <<"a">>
ab == <<"a", "/", "b">>
c == <<"c">>
Marker == <<"/", ".", ".", ".">>

PkgIds == {a, ab, c}
ExceptionEntries == {a, a \o Marker, ab \o <<".">> \o Marker}
Types == {"MIT", ""}
Licenses == {[Type |-> "MIT", Text |-> "MIT text"],
             [Type |-> "", Text |-> ""]}
ReportNames == {"", "licenses.txt"}
SetupErrors == {"Can't read config file", "rootDir error", "WalkImports error"}

SeqUpTo(S, n) == UNION {[1..k -> S] : k \in 0..n}
Range(s) == {s[i] : i \in 1..Len(s)}
Perms(S) == {p \in [1..Cardinality(S) -> S] : Range(p) = S}

----------------------------------------------------------------------------
(* Values *)

NilErr == "nil"
NonApprovedErr == "Non-Approved license found"
WriteErr == "write error"
CreateErr == "create error"

licenseReportHeader == <<"header">>

----------------------------------------------------------------------------
(* strings.HasSuffix, strings.HasPrefix, strings.TrimRight *)

HasSuffix(s, suffix) ==
    /\ Len(s) >= Len(suffix)
    /\ SubSeq(s, Len(s) - Len(suffix) + 1, Len(s)) = suffix

HasPrefix(s, prefix) ==
    /\ Len(s) >= Len(prefix)
    /\ SubSeq(s, 1, Len(prefix)) = prefix

RECURSIVE TrimRight(_, _)
TrimRight(s, cutset) ==
    IF Len(s) > 0 /\ s[Len(s)] \in Range(cutset)
    THEN TrimRight(SubSeq(s, 1, Len(s) - 1), cutset)
    ELSE s

TrimSuffix(s, suffix) ==
    IF HasSuffix(s, suffix) THEN SubSeq(s, 1, Len(s) - Len(suffix)) ELSE s

----------------------------------------------------------------------------
(* Building the policy maps, lines 129-150 *)

ListToMap(list) == {list[i] : i \in 1..Len(list)}

ExactSetDropLast(list) ==
    {list[i] : i \in {j \in 1..(Len(list) - 1) : ~HasSuffix(list[j], Marker)}}
ExactSet(list) ==
    {list[i] : i \in {j \in 1..Len(list) : ~HasSuffix(list[j], Marker)}}

WildcardSet(list) ==
    {TrimRight(list[i], Marker) :
        i \in {j \in 1..Len(list) : HasSuffix(list[j], Marker)}}

----------------------------------------------------------------------------
(* The loop body's decisions, lines 182-203 *)

IsApprovedNoDeny(wl, bl, lic) == lic.Type \in wl
IsApproved(wl, bl, lic) == lic.Type \in wl /\ lic.Type \notin bl

\* the range over exceptionsWildcard, in the order the map yields its keys
WildcardLoopFirstOnly(order, pkg) ==
    Len(order) > 0 /\ HasPrefix(pkg, order[1])
WildcardLoop(order, pkg) ==
    Len(order) > 0 /\ \E i \in 1..Len(order) : HasPrefix(pkg, order[i])

ExactMatch(exc, pkg) == pkg \in exc

----------------------------------------------------------------------------
(* The report, lines 94-102, 161, 170-175 *)

FormatEntryType(pkg, lic) ==
    <<"The following software may be included in this product: ", pkg,
      ". This software contains the following license and notice below:",
      lic.Type>>
FormatEntry(pkg, lic) ==
    <<"The following software may be included in this product: ", pkg,
      ". This software contains the following license and notice below:",
      lic.Text>>

\* the file after the loop's WriteString succeeded (no write without a file)
EntryWritten(rep, file, pkg, lic) ==
    IF rep # "nil" THEN Append(file, FormatEntry(pkg, lic)) ELSE file

\* err after `_, err = report.WriteString(...)` returned no error
ErrAfterWrite(rep, e) == IF rep # "nil" THEN NilErr ELSE e

\* err after a WriteString that failed
ErrWriteFailedKept(e) == IF e # NilErr THEN e ELSE WriteErr
ErrWriteFailed(e) == WriteErr

\* the range loop is over when the map has no key left
LoopDoneShortCircuit(pend, e) == pend = {} \/ e = NonApprovedErr
LoopDone(pend, e) == pend = {}

----------------------------------------------------------------------------

Init ==
    /\ Whitelist \in SeqUpTo(Types, MaxWhitelist)
    /\ Blacklist \in SeqUpTo(Types, MaxBlacklist)
    /\ Exceptions \in SeqUpTo(ExceptionEntries, MaxExceptions)
    /\ lics \in UNION {[D -> Licenses] :
                        D \in {d \in SUBSET PkgIds : Cardinality(d) <= MaxDeps}}
    /\ ReportOut \in ReportNames
    /\ whitelist = {}
    /\ blacklist = {}
    /\ exceptions = {}
    /\ exceptionsWildcard = {}
    /\ report = "nil"
    /\ reportFile = <<>>
    /\ writeFailed = FALSE
    /\ err = NilErr
    /\ pending = {}
    /\ verdicts = <<>>
    /\ pc = "start"
    /\ returned = "running"
    /\ run = 1
    /\ prevReport = <<>>

\* lines 112-127: one of ReadConfig, rootDir, WalkImports fails
SetupFail ==
    /\ pc = "start"
    /\ \E e \in SetupErrors :
        /\ err' = e
        /\ returned' = e
    /\ pc' = "done"
    /\ UNCHANGED <<inputs, policy, report, reportFile, writeFailed, pending,
                   verdicts, run, prevReport>>

\* lines 106-150: the inputs are read and the policy maps are built
Setup ==
    /\ pc = "start"
    /\ blacklist' = ListToMap(Blacklist)
    /\ whitelist' = ListToMap(Whitelist)
    /\ exceptions' = ExactSet(Exceptions)
    /\ exceptionsWildcard' = WildcardSet(Exceptions)
    /\ pc' = "open"
    /\ UNCHANGED <<inputs, report, reportFile, writeFailed, err, pending,
                   verdicts, returned, run, prevReport>>

\* line 154: no report requested
NoReport ==
    /\ pc = "open"
    /\ ReportOut = ""
    /\ pending' = DOMAIN lics
    /\ pc' = "loop"
    /\ UNCHANGED <<inputs, policy, report, reportFile, writeFailed, err,
                   verdicts, returned, run, prevReport>>

\* lines 155-158: os.Create fails
CreateFail ==
    /\ pc = "open"
    /\ ReportOut # ""
    /\ err' = CreateErr
    /\ returned' = CreateErr
    /\ pc' = "done"
    /\ UNCHANGED <<inputs, policy, report, reportFile, writeFailed, pending,
                   verdicts, run, prevReport>>

\* lines 155-165: os.Create truncates the file, the header is written
WriteHeader ==
    /\ pc = "open"
    /\ ReportOut # ""
    /\ report' = "open"
    /\ reportFile' = <<licenseReportHeader>>
    /\ err' = NilErr
    /\ pending' = DOMAIN lics
    /\ pc' = "loop"
    /\ UNCHANGED <<inputs, policy, writeFailed, verdicts, returned, run,
                   prevReport>>

\* lines 155-164: the file is created (empty), writing the header fails
WriteHeaderFail ==
    /\ pc = "open"
    /\ ReportOut # ""
    /\ report' = "open"
    /\ reportFile' = <<>>
    /\ err' = ErrWriteFailed(err)
    /\ returned' = err'
    /\ writeFailed' = TRUE
    /\ pc' = "done"
    /\ UNCHANGED <<inputs, policy, pending, verdicts, run, prevReport>>

\* lines 168-174: the range yields pkg, writing its report entry fails
EntryWriteFail ==
    /\ pc = "loop"
    /\ report # "nil"
    /\ \E pkg \in pending :
        /\ pending' = pending \ {pkg}
    /\ err' = ErrWriteFailed(err)
    /\ returned' = err'
    /\ writeFailed' = TRUE
    /\ pc' = "done"
    /\ UNCHANGED <<inputs, policy, report, reportFile, verdicts, run,
                   prevReport>>

\* one iteration of the loop that reaches a verdict: the entry is written
\* (if there is a report) and the verdict is logged
Iterate(pkg, order, verdict) ==
    /\ pending' = pending \ {pkg}
    /\ reportFile' = EntryWritten(report, reportFile, pkg, lics[pkg])
    /\ verdicts' = Append(verdicts, [pkg |-> pkg, verdict |-> verdict])
    /\ UNCHANGED <<inputs, policy, report, writeFailed, pc, returned, run,
                   prevReport>>

\* lines 168-186
Approved ==
    /\ pc = "loop"
    /\ \E pkg \in pending, order \in Perms(exceptionsWildcard) :
        /\ IsApproved(whitelist, blacklist, lics[pkg])
        /\ Iterate(pkg, order, "Approved")
        /\ err' = ErrAfterWrite(report, err)

\* lines 168-197
ExceptionedWildcard ==
    /\ pc = "loop"
    /\ \E pkg \in pending, order \in Perms(exceptionsWildcard) :
        /\ ~IsApproved(whitelist, blacklist, lics[pkg])
        /\ WildcardLoop(order, pkg)
        /\ Iterate(pkg, order, "Exceptioned")
        /\ err' = ErrAfterWrite(report, err)

\* lines 168-203
ExceptionedExact ==
    /\ pc = "loop"
    /\ \E pkg \in pending, order \in Perms(exceptionsWildcard) :
        /\ ~IsApproved(whitelist, blacklist, lics[pkg])
        /\ ~WildcardLoop(order, pkg)
        /\ ExactMatch(exceptions, pkg)
        /\ Iterate(pkg, order, "Exceptioned")
        /\ err' = ErrAfterWrite(report, err)

\* lines 168-209
NonApproved ==
    /\ pc = "loop"
    /\ \E pkg \in pending, order \in Perms(exceptionsWildcard) :
        /\ ~IsApproved(whitelist, blacklist, lics[pkg])
        /\ ~WildcardLoop(order, pkg)
        /\ ~ExactMatch(exceptions, pkg)
        /\ Iterate(pkg, order, "NonApproved")
        /\ err' = NonApprovedErr

\* line 211
Return ==
    /\ pc = "loop"
    /\ LoopDone(pending, err)
    /\ returned' = err
    /\ pc' = "done"
    /\ UNCHANGED <<inputs, policy, report, reportFile, writeFailed, err,
                   pending, verdicts, run, prevReport>>

Next ==
    \/ SetupFail
    \/ Setup
    \/ NoReport
    \/ CreateFail
    \/ WriteHeader
    \/ WriteHeaderFail
    \/ EntryWriteFail
    \/ Approved
    \/ ExceptionedWildcard
    \/ ExceptionedExact
    \/ NonApproved
    \/ Return

Spec == Init /\ [][Next]_vars

----------------------------------------------------------------------------
(* The command invoked a second time on the same project and configuration: *)
(* every local of Execute starts afresh, the report file stays on disk      *)
(* until os.Create truncates it.                                            *)

Rerun ==
    /\ pc = "done"
    /\ run = 1
    /\ run' = 2
    /\ prevReport' = reportFile
    /\ whitelist' = {}
    /\ blacklist' = {}
    /\ exceptions' = {}
    /\ exceptionsWildcard' = {}
    /\ report' = "nil"
    /\ writeFailed' = FALSE
    /\ err' = NilErr
    /\ pending' = {}
    /\ verdicts' = <<>>
    /\ pc' = "start"
    /\ returned' = "running"
    /\ UNCHANGED <<inputs, reportFile>>

NextTwoRuns ==
    \/ Next
    \/ Rerun

SpecTwoRuns == Init /\ [][NextTwoRuns]_vars

----------------------------------------------------------------------------
(* Properties *)

Evaluated == 1..Len(verdicts)
TypeOf(i) == lics[verdicts[i].pkg].Type
SomeNonApproved == \E i \in Evaluated : verdicts[i].verdict = "NonApproved"
\* the policy as the configuration states it
Allowed(type) == type \in Range(Whitelist) /\ type \notin Range(Blacklist)
ExactEntry(pkg) ==
    \E j \in 1..Len(Exceptions) :
        Exceptions[j] = pkg /\ ~HasSuffix(Exceptions[j], Marker)
PrefixCovered(pkg) == \E wc \in exceptionsWildcard : HasPrefix(pkg, wc)
\* the run came to the end of the package loop with every write accepted
LoopCompleted ==
    pc = "done" /\ ~writeFailed /\ returned \in {NilErr, NonApprovedErr}

\* C1: a run that reaches the package loop and has no failed report write
\* returns a non-nil error if and only if some dependency was NonApproved,
\* with or without a report and for every iteration order.
C1_ErrorIffNonApproved ==
    LoopCompleted => ((returned # NilErr) <=> SomeNonApproved)

\* C2: the verdict is Approved if and only if the license Type is in the
\* whitelist and not in the blacklist (deny wins), whatever the exceptions.
C2_ApprovedIffAllowed ==
    \A i \in Evaluated :
        (verdicts[i].verdict = "Approved") <=> Allowed(TypeOf(i))

\* a Type in both lists was evaluated for a package an exception covers
C2_Witness ==
    \E i \in Evaluated :
        /\ TypeOf(i) \in Range(Whitelist) \cap Range(Blacklist)
        /\ ExactEntry(verdicts[i].pkg)
        /\ verdicts[i].verdict = "Exceptioned"

\* C3 (as stated): a dependency whose identifier equals an exact entry of
\* Exceptions gets the verdict Exceptioned whatever its license type is.
C3_ExactAlwaysExceptioned ==
    \A i \in Evaluated :
        ExactEntry(verdicts[i].pkg) => verdicts[i].verdict = "Exceptioned"

\* C3 (amended): a dependency whose identifier equals an exact entry of
\* Exceptions is never NonApproved: it is Approved when its Type is
\* whitelisted and not blacklisted, and Exceptioned otherwise.
C3_ExactNeverNonApproved ==
    \A i \in Evaluated :
        ExactEntry(verdicts[i].pkg) =>
            /\ verdicts[i].verdict # "NonApproved"
            /\ (verdicts[i].verdict = "Exceptioned") <=> ~Allowed(TypeOf(i))

\* a package not allowed by type and covered by the exact entry only
C3_Witness ==
    \E i \in Evaluated :
        /\ ExactEntry(verdicts[i].pkg)
        /\ ~PrefixCovered(verdicts[i].pkg)
        /\ ~Allowed(TypeOf(i))
        /\ verdicts[i].verdict = "Exceptioned"

\* C4: a dependency that is not Approved and has some entry of the
\* wildcard-prefix set as a prefix is Exceptioned, for every order in which
\* the set is iterated.
C4_PrefixExceptioned ==
    \A i \in Evaluated :
        (~Allowed(TypeOf(i)) /\ PrefixCovered(verdicts[i].pkg))
            => verdicts[i].verdict = "Exceptioned"

\* two prefixes, one matching the package and one not
C4_Witness ==
    \E i \in Evaluated :
        /\ ~Allowed(TypeOf(i))
        /\ \E w1, w2 \in exceptionsWildcard :
            HasPrefix(verdicts[i].pkg, w1) /\ ~HasPrefix(verdicts[i].pkg, w2)
        /\ verdicts[i].verdict = "Exceptioned"

\* C5: with no failed write every dependency is evaluated exactly once; a
\* NonApproved verdict does not stop the loop, so the number of verdicts is
\* the number of dependencies.
C5_EveryDependencyOnce ==
    /\ \A i, j \in Evaluated : verdicts[i].pkg = verdicts[j].pkg => i = j
    /\ LoopCompleted =>
        /\ Len(verdicts) = Cardinality(DOMAIN lics)
        /\ \A pkg \in DOMAIN lics : \E i \in Evaluated : verdicts[i].pkg = pkg

\* the first dependency was NonApproved and a second one was evaluated
C5_Witness ==
    /\ LoopCompleted
    /\ Len(verdicts) = 2
    /\ verdicts[1].verdict = "NonApproved"

\* C6: with a report and no failed write, the report is the header once,
\* first, then exactly one entry per dependency with its identifier and
\* license text, whatever the verdicts.
C6_ReportComplete ==
    /\ (report = "open" /\ Len(reportFile) > 0)
            => reportFile[1] = licenseReportHeader
    /\ (LoopCompleted /\ report = "open") =>
        /\ Len(reportFile) = 1 + Cardinality(DOMAIN lics)
        /\ \A k \in 2..Len(reportFile) : reportFile[k] # licenseReportHeader
        /\ \A pkg \in DOMAIN lics :
            Cardinality({k \in 2..Len(reportFile) :
                            /\ Len(reportFile[k]) = 4
                            /\ reportFile[k][2] = pkg
                            /\ reportFile[k][4] = lics[pkg].Text}) = 1

\* a complete report of a run with an Approved and a NonApproved dependency
C6_Witness ==
    /\ LoopCompleted
    /\ report = "open"
    /\ \E i, j \in Evaluated :
        /\ verdicts[i].verdict = "Approved"
        /\ verdicts[j].verdict = "NonApproved"

\* C7: a failed report write ends the run at once with the write error:
\* nothing more is written or evaluated, and the error is not the
\* policy-violation error even after a NonApproved verdict.
C7_WriteFailureReturned ==
    /\ [](writeFailed => (pc = "done" /\ returned = WriteErr))
    /\ [][writeFailed' =>
            (verdicts' = verdicts /\ Len(reportFile') <= Len(reportFile))]_vars

\* an entry write failed after a NonApproved verdict
C7_Witness == writeFailed /\ SomeNonApproved

\* C8: two runs on the same license map and policy write the same report.
C8_SameReportEveryRun ==
    (/\ run = 2
     /\ LoopCompleted
     /\ report = "open"
     /\ Len(prevReport) = 1 + Cardinality(DOMAIN lics))
        => reportFile = prevReport

\* C9: every entry of Exceptions is in exactly one set: a wildcard entry in
\* the prefix set with exactly its trailing "/..." removed, any other entry
\* unchanged in the exact set.
C9_NormalizedExceptions ==
    pc \in {"open", "loop"} =>
        /\ exceptionsWildcard =
                {TrimSuffix(Exceptions[j], Marker) :
                    j \in {k \in 1..Len(Exceptions) :
                                HasSuffix(Exceptions[k], Marker)}}
        /\ exceptions =
                {Exceptions[j] :
                    j \in {k \in 1..Len(Exceptions) :
                                ~HasSuffix(Exceptions[k], Marker)}}

\* C10: a dependency with the empty license Type is never Approved; it is
\* Exceptioned if an exception covers it and NonApproved otherwise, and then
\* the run returns an error.
C10_UnrecognizedNeverApproved ==
    \A i \in Evaluated :
        TypeOf(i) = "" =>
            /\ verdicts[i].verdict # "Approved"
            /\ (verdicts[i].verdict = "Exceptioned") <=>
                    (PrefixCovered(verdicts[i].pkg)
                        \/ ExactEntry(verdicts[i].pkg))
            /\ (verdicts[i].verdict = "NonApproved" /\ LoopCompleted)
                    => returned # NilErr

====
